---- MODULE Spec2Model ----
(***************************************************************************)
(* Model of spyne.protocol.xml._base: the XmlDocument protocol object      *)
(* (self), one method context (ctx) and the operations of the document     *)
(* pipeline.  Every operation is an operator that computes the result of   *)
(* the whole Python method (new self / ctx, the exception that left the    *)
(* method, the steps it took, what it logged) and an action that applies   *)
(* it.                                                                     *)
(***************************************************************************)
EXTENDS Integers, Sequences, FiniteSets, TLC

VARIABLES self, ctor, ctx, pre, call, raised, retval, trace, logged, pc, rd,
          xsd

vars == <<self, ctor, ctx, pre, call, raised, retval, trace, logged, pc, rd,
          xsd>>

(***************************************************************************)
(* Bounds of the model.                                                    *)
(***************************************************************************)
MaxLen == 4
MaxFrags == 2

(***************************************************************************)
(* Python's None for object-valued fields is the empty tuple, a present    *)
(* object v is <<v>>; string-valued fields use the string "None".          *)
(***************************************************************************)
None == <<>>

Some(v) == <<v>>

Val(o) == o[1]

(***************************************************************************)
(* Exceptions.  Every exception is a record of the same shape; a Fault     *)
(* carries faultcode and faultstring, the other exception types leave the  *)
(* faultcode empty.  A message is a text with an optional argument and     *)
(* position.                                                               *)
(***************************************************************************)
Msg(text, arg, pos) == [text |-> text, arg |-> arg, pos |-> pos]

NoMsg == Msg("", "", 0)

Exc(type, msg) == [type |-> type, faultcode |-> "", faultstring |-> msg]

Fault(faultcode, faultstring) ==
    [type |-> "Fault", faultcode |-> faultcode, faultstring |-> faultstring]

SchemaValidationError(faultstring) ==
    [type |-> "SchemaValidationError",
     faultcode |-> "Client.SchemaValidationError",
     faultstring |-> faultstring]

NoExc == None

IsFault(e) == e.type \in {"Fault", "SchemaValidationError"}

(***************************************************************************)
(* XML text.  The input is a string of tokens: an open tag "a" or "b", a   *)
(* close tag "/", or an XML declaration with an encoding "?".  A parsed    *)
(* document is the sequence of its elements in document order, each with   *)
(* its tag, its depth (the root has depth 1) and the names of its          *)
(* attributes (the tokens give an element none).                           *)
(***************************************************************************)
Tags == {"a", "b"}

Close == "/"

Decl == "?"

Tok == Tags \cup {Close, Decl}

Node(tag, depth) == [tag |-> tag, depth |-> depth, attrs |-> {}]

RECURSIVE Scan(_, _, _, _, _)
Scan(s, i, depth, nodes, recover) ==
    IF i > Len(s)
    THEN IF depth = 0 /\ nodes # <<>>
         THEN [ok |-> TRUE, nodes |-> nodes, pos |-> 0]
         ELSE IF recover
              THEN [ok |-> TRUE, nodes |-> nodes, pos |-> i]
              ELSE [ok |-> FALSE, nodes |-> nodes, pos |-> i]
    ELSE LET tok == s[i]
             bad == \/ tok = Decl /\ i # 1
                    \/ tok \in Tags /\ depth = 0 /\ nodes # <<>>
                    \/ tok = Close /\ depth = 0
         IN  IF bad
             THEN IF recover
                  THEN Scan(s, i + 1, depth, nodes, recover)
                  ELSE [ok |-> FALSE, nodes |-> nodes, pos |-> i]
             ELSE IF tok = Decl
                  THEN Scan(s, i + 1, depth, nodes, recover)
                  ELSE IF tok \in Tags
                       THEN Scan(s, i + 1, depth + 1,
                                 Append(nodes, Node(tok, depth + 1)), recover)
                       ELSE Scan(s, i + 1, depth - 1, nodes, recover)

WellFormed(s) == Scan(s, 1, 0, <<>>, FALSE).ok

RECURSIVE _bytes_join(_)
_bytes_join(frags) ==
    IF frags = <<>> THEN <<>> ELSE Head(frags) \o _bytes_join(Tail(frags))

HasEncodingDeclaration(s) == Len(s) > 0 /\ s[1] = Decl

(***************************************************************************)
(* etree.fromstring(string, parser) with an XMLParser built from the       *)
(* parser arguments.  Text (unicode)                                       *)
(* input with an encoding declaration is refused with ValueError before    *)
(* any parsing.  With recover off a syntax error is XMLSyntaxError with    *)
(* the position of the offending token; with recover on the parser skips   *)
(* the offending tokens and closes what is left open, and returns None     *)
(* when no element was found at all.                                       *)
(***************************************************************************)
fromstring(s, unicode, kwargs) ==
    IF unicode /\ HasEncodingDeclaration(s)
    THEN [exc |-> Some(Exc("ValueError", NoMsg)), doc |-> None]
    ELSE LET r == Scan(s, 1, 0, <<>>, kwargs.recover)
         IN  IF r.ok
             THEN [exc |-> NoExc,
                   doc |-> IF r.nodes = <<>> THEN None ELSE Some(r.nodes)]
             ELSE [exc |-> Some(Exc("XMLSyntaxError",
                                    Msg("syntax error", "", r.pos))),
                   doc |-> None]

(***************************************************************************)
(* Applications.  An application's interface has a target namespace and    *)
(* the element names its types declare.  The compiled validation schema    *)
(* of an application accepts a document when every element of the document *)
(* is declared and the root has the attributes the schema requires; its    *)
(* error log lists, in document order, the undeclared elements and the     *)
(* required attributes that are missing.                                   *)
(***************************************************************************)
Apps == {"app1", "app2"}

get_tns(app) == IF app = "app1" THEN "ns1" ELSE "ns2"

InterfaceElements(app) == IF app = "app1" THEN {"a"} ELSE {"b"}

build_validation_schema(app) ==
    [app |-> app, tns |-> get_tns(app), elements |-> InterfaceElements(app),
     required |-> <<>>]

\* the errors of a declared element: the required attributes it lacks
missing_attributes(schema, node, i) ==
    LET missing == SelectSeq(schema.required, LAMBDA a : a \notin node.attrs)
    IN  IF node.depth = 1
        THEN [k \in DOMAIN missing |->
                 Msg("attribute required", missing[k], i)]
        ELSE <<>>

RECURSIVE error_log(_, _, _)
error_log(schema, doc, i) ==
    IF i > Len(doc) THEN <<>>
    ELSE (IF doc[i].tag \in schema.elements
          THEN missing_attributes(schema, doc[i], i)
          ELSE <<Msg("element not expected", doc[i].tag, i)>>)
         \o error_log(schema, doc, i + 1)

validate(schema, doc) == error_log(schema, doc, 1) = <<>>

last_error_first(schema, doc) ==
    LET log == error_log(schema, doc, 1) IN log[1]

last_error(schema, doc) ==
    LET log == error_log(schema, doc, 1) IN log[Len(log)]

(***************************************************************************)
(* Results of an operation: the protocol object and the context after it,  *)
(* the exception that left the method (NoExc when it returned), its return *)
(* value, the steps it took in order and the entries it wrote to the       *)
(* primary logger ('spyne.protocol.xml') and to the invalid-traffic logger *)
(* ('spyne.protocol.xml.invalid').                                         *)
(***************************************************************************)
Step(step, arg) == [step |-> step, arg |-> arg]

LogEntry(kind, text, data) == [kind |-> kind, text |-> text, data |-> data]

NoLog == [logger |-> <<>>, logger_invalid |-> <<>>]

Result(s, c, exc, ret, tr, log) ==
    [self |-> s, ctx |-> c, exc |-> exc, ret |-> ret, trace |-> tr, log |-> log]

(***************************************************************************)
(* The constructor.  ParserFlags are the keyword arguments handed to the   *)
(* XMLParser; DefaultArgs are the defaults of XmlDocument.__init__.        *)
(***************************************************************************)
ParserFlags ==
    {"attribute_defaults", "dtd_validation", "load_dtd", "no_network",
     "ns_clean", "recover", "remove_blank_text", "remove_pis", "strip_cdata",
     "resolve_entities", "huge_tree", "compact"}

DefaultArgs ==
    [app |-> "None", validator |-> "None", xml_declaration |-> TRUE,
     cleanup_namespaces |-> TRUE, encoding |-> "None", pretty_print |-> FALSE,
     attribute_defaults |-> FALSE,
     dtd_validation |-> FALSE,
     load_dtd |-> FALSE,
     no_network |-> TRUE,
     ns_clean |-> FALSE,
     recover |-> FALSE,
     remove_blank_text |-> FALSE,
     remove_pis |-> TRUE,
     strip_cdata |-> TRUE,
     resolve_entities |-> FALSE,
     huge_tree |-> FALSE,
     compact |-> TRUE]

ValidatorArgs ==
    {"None", "soft", "SOFT_VALIDATION", "lxml", "schema", "SCHEMA_VALIDATION"}

\* XmlDocument.set_validator
set_validator_op(s, validator) ==
    IF validator \in {"lxml", "schema", "SCHEMA_VALIDATION"}
    THEN [self |-> [s EXCEPT !.validate_document = "__validate_lxml",
                             !.validator = "SCHEMA_VALIDATION",
                             !.validation_schema = None],
          exc |-> NoExc]
    ELSE IF validator \in {"soft", "SOFT_VALIDATION"}
    THEN [self |-> [s EXCEPT !.validator = "SOFT_VALIDATION",
                             !.validation_schema = None],
          exc |-> NoExc]
    ELSE IF validator = "None"
    THEN [self |-> [s EXCEPT !.validation_schema = None], exc |-> NoExc]
    ELSE [self |-> s, exc |-> Some(Exc("ValueError", Msg(validator, "", 0)))]

\* ProtocolBase.set_app: the protocol's application becomes value
ProtocolBase_set_app(s, value) == [s EXCEPT !.app = value]

\* XmlDocument.set_app, one statement at a time
set_app_clear(s) == [s EXCEPT !.validation_schema = None]

set_app_build(s, value) ==
    IF value # "None"
    THEN [s EXCEPT !.validation_schema = Some(build_validation_schema(value))]
    ELSE s

\* XmlDocument.set_app
set_app_op(s, value) ==
    [self |-> set_app_build(set_app_clear(ProtocolBase_set_app(s, value)),
                            value),
     exc |-> NoExc]

\* ProtocolBase.__init__(self, app, validator)
ProtocolBase_init(app, validator) ==
    LET s0 == [app |-> "None", validator |-> "None",
               validate_document |-> "ProtocolBase.validate_document",
               validation_schema |-> None,
               observers |-> "none"]
        s1 == set_app_op(s0, app).self
    IN  set_validator_op(s1, validator).self

parser_kwargs_swapped(args) ==
    [attribute_defaults |-> args.attribute_defaults,
     dtd_validation |-> args.load_dtd,
     load_dtd |-> args.dtd_validation,
     no_network |-> args.no_network,
     ns_clean |-> args.ns_clean,
     recover |-> args.recover,
     remove_blank_text |-> args.remove_blank_text,
     remove_comments |-> TRUE,
     remove_pis |-> args.remove_pis,
     strip_cdata |-> args.strip_cdata,
     resolve_entities |-> args.resolve_entities,
     huge_tree |-> args.huge_tree,
     compact |-> args.compact,
     encoding |-> args.encoding]

\* XmlDocument.__init__, lines 229-244: the arguments kept for the XMLParser
parser_kwargs(args) ==
    [attribute_defaults |-> args.attribute_defaults,
     dtd_validation |-> args.dtd_validation,
     load_dtd |-> args.load_dtd,
     no_network |-> args.no_network,
     ns_clean |-> args.ns_clean,
     recover |-> args.recover,
     remove_blank_text |-> args.remove_blank_text,
     remove_comments |-> TRUE,
     remove_pis |-> args.remove_pis,
     strip_cdata |-> args.strip_cdata,
     resolve_entities |-> args.resolve_entities,
     huge_tree |-> args.huge_tree,
     compact |-> args.compact,
     encoding |-> args.encoding]

\* XmlDocument.__init__; debug is logger.level == logging.DEBUG
XmlDocument_init(args, debug) ==
    LET s == ProtocolBase_init(args.app, args.validator)
    IN  [app |-> s.app, validator |-> s.validator,
         validate_document |-> s.validate_document,
         validation_schema |-> s.validation_schema,
         observers |-> s.observers,
         xml_declaration |-> args.xml_declaration,
         cleanup_namespaces |-> args.cleanup_namespaces,
         encoding |-> IF args.encoding = "None" THEN "UTF-8"
                      ELSE args.encoding,
         pretty_print |-> args.pretty_print,
         log_messages |-> debug,
         parser_kwargs |-> parser_kwargs(args)]

(***************************************************************************)
(* A fresh method context: nothing received, nothing produced.             *)
(***************************************************************************)
NoString == [frags |-> <<>>, unicode |-> FALSE]

MethodContext ==
    [in_string |-> NoString, in_document |-> None, in_header_doc |-> None,
     in_body_doc |-> None, method_request_string |-> "None",
     descriptor |-> None, in_error |-> None, in_object |-> None,
     out_object |-> None, out_error |-> None, out_document |-> None]

Messages == {"REQUEST", "RESPONSE"}

\* XmlDocument.__validate_lxml(payload), payload an element
__validate_lxml(s, payload) ==
    IF s.validation_schema = None
    THEN [exc |-> Some(Exc("AttributeError", Msg("validate", "", 0))),
          trace |-> <<>>, log |-> <<>>]
    ELSE LET schema == Val(s.validation_schema)
             ret == validate(schema, payload)
         IN  [exc |-> IF ret = FALSE
                      THEN Some(SchemaValidationError(
                                    last_error(schema, payload)))
                      ELSE NoExc,
              trace |-> <<Step("validation_schema.validate", schema.app)>>,
              log |-> <<LogEntry("text", "Validated ?",
                                 IF ret THEN "True" ELSE "False")>>]

\* self.validate_document(payload): ProtocolBase's does nothing
validate_document(s, payload) ==
    IF s.validate_document = "__validate_lxml"
    THEN IF payload = None
         THEN [exc |-> Some(Exc("TypeError", NoMsg)), trace |-> <<>>,
               log |-> <<>>]
         ELSE __validate_lxml(s, Val(payload))
    ELSE [exc |-> NoExc, trace |-> <<>>, log |-> <<>>]

\* etree.tostring(document) in a logger.debug call
tostring_log(document, kind) ==
    IF document = None
    THEN [exc |-> Some(Exc("TypeError", NoMsg)), log |-> <<>>]
    ELSE [exc |-> NoExc, log |-> <<LogEntry(kind, "", document)>>]

\* XmlDocument.validate_body(ctx, message)
validate_body_op(s, c, message) ==
    LET v == validate_document(s, c.in_body_doc)
        line_header == IF v.exc # NoExc THEN "Error:"
                       ELSE IF message = "REQUEST"
                            THEN "Method request string:"
                            ELSE "Response:"
        dump == tostring_log(c.in_document, "in_document")
        fin == IF s.log_messages
               THEN [exc |-> dump.exc,
                     log |-> <<LogEntry("text", line_header,
                                        c.method_request_string)>> \o dump.log]
               ELSE [exc |-> NoExc, log |-> <<>>]
    IN  Result(s, c, IF fin.exc # NoExc THEN fin.exc ELSE v.exc, None,
               <<Step("validate_document", s.validate_document)>> \o v.trace,
               [logger |-> v.log \o fin.log, logger_invalid |-> <<>>])

syntax_error_primary(s, c, string, e) ==
    Result(s, c, Some(Fault("Client.XMLSyntaxError", e.faultstring)), None,
           <<Step("fromstring", "parser_kwargs")>>,
           [logger |-> <<LogEntry("string", "", string)>>,
            logger_invalid |-> <<>>])

\* XmlDocument.create_in_document, lines 305-307: the handler of
\* XMLSyntaxError
syntax_error(s, c, string, e) ==
    Result(s, c, Some(Fault("Client.XMLSyntaxError", e.faultstring)), None,
           <<Step("fromstring", "parser_kwargs")>>,
           [logger |-> <<>>,
            logger_invalid |-> <<LogEntry("string", "", string)>>])

\* XmlDocument.create_in_document(ctx, charset)
create_in_document_op(s, c, charset) ==
    LET string == _bytes_join(c.in_string.frags)
        first == fromstring(string, c.in_string.unicode, s.parser_kwargs)
        note == LogEntry("text", "ValueError: Deserializing from unicode", "")
    IN  IF first.exc = NoExc
        THEN Result(s, [c EXCEPT !.in_document = first.doc], NoExc, None,
                    <<Step("fromstring", "parser_kwargs")>>, NoLog)
        ELSE IF Val(first.exc).type = "ValueError"
        THEN Result(s, c,
                    IF charset = "None"
                    THEN Some(Exc("TypeError", Msg("decode", "", 0)))
                    ELSE Some(Exc("AttributeError", Msg("parser", "", 0))),
                    None,
                    <<Step("fromstring", "parser_kwargs"),
                      Step("decode", charset)>>,
                    [logger |-> <<note>>, logger_invalid |-> <<>>])
        ELSE syntax_error(s, c, string, Val(first.exc))

decompose_incoming_envelope_op_validate_first(s, c, message) ==
    LET c1 == [c EXCEPT !.in_header_doc = None, !.in_body_doc = c.in_document]
    IN  IF c1.in_body_doc = None
        THEN Result(s, c1, Some(Exc("AttributeError", Msg("tag", "", 0))),
                    None, <<>>, NoLog)
        ELSE LET c2 == [c1 EXCEPT !.method_request_string =
                                      Val(c1.in_body_doc)[1].tag]
                 v == validate_body_op(s, c2, message)
             IN  Result(s, IF v.exc # NoExc THEN c ELSE c2, v.exc, None,
                        v.trace
                            \o <<Step("extract_body",
                                      c2.method_request_string)>>,
                        v.log)

\* XmlDocument.decompose_incoming_envelope(ctx, message)
decompose_incoming_envelope_op(s, c, message) ==
    LET c1 == [c EXCEPT !.in_header_doc = None, !.in_body_doc = c.in_document]
    IN  IF c1.in_body_doc = None
        THEN Result(s, c1, Some(Exc("AttributeError", Msg("tag", "", 0))),
                    None, <<>>, NoLog)
        ELSE LET c2 == [c1 EXCEPT !.method_request_string =
                                      Val(c1.in_body_doc)[1].tag]
                 v == validate_body_op(s, c2, message)
             IN  Result(s, c2, v.exc, None,
                        <<Step("extract_body", c2.method_request_string)>>
                            \o v.trace,
                        v.log)

(***************************************************************************)
(* Model classes, their method-resolution order and declared fields, and   *)
(* the handler tables of XmlDocument.__init__.                             *)
(***************************************************************************)
__mro__(cls) ==
    CASE cls = "Req" ->
            <<"Req", "ComplexModel", "ComplexModelBase", "ModelBase", "object">>
      [] cls = "Resp" ->
            <<"Resp", "ComplexModel", "ComplexModelBase", "ModelBase",
              "object">>
      [] cls = "Fault" ->
            <<"Fault", "ComplexModelBase", "ModelBase", "Exception",
              "BaseException", "object">>
      [] cls = "SchemaValidationError" ->
            <<"SchemaValidationError", "Fault", "ComplexModelBase",
              "ModelBase", "Exception", "BaseException", "object">>
      [] cls = "UserFault" ->
            <<"UserFault", "ComplexModel", "Fault", "ComplexModelBase",
              "ModelBase", "Exception", "BaseException", "object">>
      [] cls = "Array" ->
            <<"Array", "ComplexModel", "ComplexModelBase", "ModelBase",
              "object">>
      [] cls = "Integer" ->
            <<"Integer", "Decimal", "SimpleModel", "ModelBase", "object">>
      [] cls = "Unicode" ->
            <<"Unicode", "SimpleModel", "ModelBase", "object">>
      [] cls = "KeyError" ->
            <<"KeyError", "LookupError", "StandardError", "Exception",
              "BaseException", "object">>
      [] OTHER -> <<cls, "object">>

_type_info(cls) ==
    CASE cls = "Req" -> <<"a", "b">>
      [] cls = "Resp" -> <<"b">>
      [] OTHER -> <<>>

serialization_handlers ==
    [AnyXml |-> "xml_to_parent_element",
     Fault |-> "fault_to_parent_element",
     AnyDict |-> "dict_to_parent_element",
     AnyHtml |-> "html_to_parent_element",
     EnumBase |-> "enum_to_parent_element",
     ModelBase |-> "base_to_parent_element",
     ByteArray |-> "byte_array_to_parent_element",
     Attachment |-> "attachment_to_parent_element",
     XmlAttribute |-> "xmlattribute_to_parent_element",
     ComplexModelBase |-> "complex_to_parent_element"]

deserialization_handlers ==
    [AnyXml |-> "xml_from_element",
     Fault |-> "fault_from_element",
     AnyDict |-> "dict_from_element",
     EnumBase |-> "enum_from_element",
     ModelBase |-> "base_from_element",
     Unicode |-> "unicode_from_element",
     ByteArray |-> "byte_array_from_element",
     Attachment |-> "attachment_from_element",
     ComplexModelBase |-> "complex_from_element",
     Iterable |-> "iterable_from_element",
     Array |-> "array_from_element"]

RECURSIVE cdict_getitem_farthest(_, _)
cdict_getitem_farthest(handlers, mro) ==
    IF mro = <<>> THEN "KeyError"
    ELSE LET rest == cdict_getitem_farthest(handlers, Tail(mro))
         IN  IF rest # "KeyError" THEN rest
             ELSE IF Head(mro) \in DOMAIN handlers THEN handlers[Head(mro)]
             ELSE "KeyError"

\* cdict.__getitem__(cls): the handler of the first class of the
\* linearization that has one, "KeyError" when there is none
RECURSIVE cdict_getitem(_, _)
cdict_getitem(handlers, mro) ==
    IF mro = <<>> THEN "KeyError"
    ELSE IF Head(mro) \in DOMAIN handlers THEN handlers[Head(mro)]
    ELSE cdict_getitem(handlers, Tail(mro))

(***************************************************************************)
(* Python values handed to and returned by the handlers: an instance of a  *)
(* message class with its attributes, a plain object (a list of values),   *)
(* an exception instance, or None.                                         *)
(***************************************************************************)
Values == {"v1", "v2", "bad"}

PyNone == [kind |-> "None", cls |-> "NoneType", attrs |-> {}, items |-> <<>>,
           err |-> None]

PyList(items) == [kind |-> "list", cls |-> "list", attrs |-> {},
                  items |-> items, err |-> None]

PyInstance(cls, attrs) == [kind |-> "instance", cls |-> cls, attrs |-> attrs,
                           items |-> <<>>, err |-> None]

PyError(e) == [kind |-> "error", cls |-> e.type, attrs |-> {}, items |-> <<>>,
               err |-> Some(e)]

Representable(value) ==
    /\ \A i \in DOMAIN value.items : value.items[i] # "bad"
    /\ \A p \in value.attrs : p[2] # "bad"
    /\ value.err # None => Val(value.err).faultcode # "bad"

\* the element a *_to_parent_element handler appends to the parent, with the
\* namespace prefixes it declares
Element(handler, cls, value, tns) ==
    [handler |-> handler, cls |-> cls, value |-> value, tns |-> tns,
     nsmap |-> {tns, "xs", "xsi"}]

\* etree.cleanup_namespaces(element): drop the declarations no node uses
cleanup_namespaces(element) ==
    [element EXCEPT !.nsmap = element.nsmap \cap {element.tns}]

\* XmlDocument.to_parent_element(cls, value, tns, parent_elt)
to_parent_element(cls, value, tns) ==
    LET handler == cdict_getitem(serialization_handlers, __mro__(cls))
    IN  IF handler = "KeyError"
        THEN [exc |-> Some(Exc("KeyError", Msg(cls, "", 0))), elt |-> None,
              handler |-> handler]
        ELSE IF ~Representable(value)
        THEN [exc |-> Some(Exc("ValueError", Msg("bad", "", 0))),
              elt |-> None, handler |-> handler]
        ELSE [exc |-> NoExc, elt |-> Some(Element(handler, cls, value, tns)),
              handler |-> handler]

ChildTags(doc) == {doc[i].tag : i \in {j \in DOMAIN doc : doc[j].depth = 2}}

Mandatory(cls) == IF cls = "Req" THEN {"a"} ELSE {}

\* XmlDocument.from_element(cls, element)
from_element(cls, element) ==
    LET handler == cdict_getitem(deserialization_handlers, __mro__(cls))
        fields == _type_info(cls)
    IN  IF handler = "KeyError"
        THEN [exc |-> Some(Exc("KeyError", Msg(cls, "", 0))), value |-> None,
              handler |-> handler]
        ELSE IF ~(Mandatory(cls) \subseteq ChildTags(element))
        THEN [exc |-> Some(Fault("Client.DeserializationError",
                                 Msg("missing", cls, 0))),
              value |-> None, handler |-> handler]
        ELSE [exc |-> NoExc,
              value |-> Some(PyInstance(cls,
                   {<<fields[i], IF fields[i] \in ChildTags(element)
                                 THEN "v1" ELSE "None">> :
                        i \in DOMAIN fields})),
              handler |-> handler]

fire_event_raising(s, name) ==
    [exc |-> IF s.observers = "fails"
             THEN Some(Exc("RuntimeError", Msg("observer", name, 0)))
             ELSE NoExc,
     trace |-> <<Step("fire_event", name)>>
                   \o (IF s.observers = "none" THEN <<>>
                       ELSE <<Step("observer", s.observers)>>)]

\* EventManager.fire_event(name, ctx): notifies the registered observers.
\* A notification has no effect on the caller: whatever the observer does,
\* fire_event returns
fire_event(s, name) ==
    [exc |-> NoExc,
     trace |-> <<Step("fire_event", name)>>
                   \o (IF s.observers = "none" THEN <<>>
                       ELSE <<Step("observer", s.observers)>>)]

\* XmlDocument.deserialize, lines 353-356 (serialize, lines 393-396): the
\* message class of the descriptor for the direction of the message
message_class(descriptor, message) ==
    IF message = "REQUEST" THEN descriptor.in_message
    ELSE descriptor.out_message

deserialize_decode_in_message(s, c, message, tr) ==
    LET body_class == Val(c.descriptor).in_message
        n == Len(_type_info(body_class))
        dec == from_element(body_class, Val(c.in_body_doc))
    IN  IF c.in_body_doc # None /\ dec.exc # NoExc
        THEN Result(s, c, dec.exc, None,
                    tr \o <<Step("from_element", dec.handler)>>, NoLog)
        ELSE
        LET c1 == [c EXCEPT !.in_object =
                      IF c.in_body_doc = None
                      THEN Some(PyList([i \in 1..n |-> "None"]))
                      ELSE dec.value]
            tr1 == tr
                   \o (IF c.in_body_doc = None THEN <<>>
                       ELSE <<Step("from_element", dec.handler)>>)
                   \o <<Step("set", "in_object")>>
            dump == tostring_log(c.out_document, "out_document")
            after == fire_event(s, "after_deserialize")
        IN  IF s.log_messages /\ message = "REQUEST"
            THEN IF dump.exc # NoExc
                 THEN Result(s, c1, dump.exc, None, tr1, NoLog)
                 ELSE Result(s, c1, after.exc, None, tr1 \o after.trace,
                             [logger |-> <<LogEntry("text", "Request", "")>>
                                             \o dump.log,
                              logger_invalid |-> <<>>])
            ELSE Result(s, c1, after.exc, None, tr1 \o after.trace, NoLog)

\* XmlDocument.deserialize, lines 353-370: decoding, once the descriptor is
\* known to be there; tr is the trace so far
deserialize_decode(s, c, message, tr) ==
    LET body_class == message_class(Val(c.descriptor), message)
        n == Len(_type_info(body_class))
        dec == from_element(body_class, Val(c.in_body_doc))
    IN  IF c.in_body_doc # None /\ dec.exc # NoExc
        THEN Result(s, c, dec.exc, None,
                    tr \o <<Step("from_element", dec.handler)>>, NoLog)
        ELSE
        LET c1 == [c EXCEPT !.in_object =
                      IF c.in_body_doc = None
                      THEN Some(PyList([i \in 1..n |-> "None"]))
                      ELSE dec.value]
            tr1 == tr
                   \o (IF c.in_body_doc = None THEN <<>>
                       ELSE <<Step("from_element", dec.handler)>>)
                   \o <<Step("set", "in_object")>>
            dump == tostring_log(c.out_document, "out_document")
            after == fire_event(s, "after_deserialize")
        IN  IF s.log_messages /\ message = "REQUEST"
            THEN IF dump.exc # NoExc
                 THEN Result(s, c1, dump.exc, None, tr1, NoLog)
                 ELSE Result(s, c1, after.exc, None, tr1 \o after.trace,
                             [logger |-> <<LogEntry("text", "Request", "")>>
                                             \o dump.log,
                              logger_invalid |-> <<>>])
            ELSE Result(s, c1, after.exc, None, tr1 \o after.trace, NoLog)

deserialize_op_not_found_first(s, c, message) ==
    LET before == fire_event(s, "before_deserialize")
    IN  IF before.exc # NoExc
        THEN Result(s, c, before.exc, None, before.trace, NoLog)
        ELSE IF c.descriptor = None
        THEN Result(s, c,
                    Some(Fault("Client", Msg("Method not found.",
                                             c.method_request_string, 0))),
                    None, before.trace, NoLog)
        ELSE deserialize_decode(s, c, message, before.trace)

\* XmlDocument.deserialize(ctx, message)
deserialize_op(s, c, message) ==
    LET before == fire_event(s, "before_deserialize")
    IN  IF before.exc # NoExc
        THEN Result(s, c, before.exc, None, before.trace, NoLog)
        ELSE IF c.descriptor = None
        THEN Result(s, c,
                    IF c.in_error = None
                    THEN Some(Fault("Client", Msg("Method not found.",
                                                  c.method_request_string, 0)))
                    ELSE c.in_error,
                    None, before.trace, NoLog)
        ELSE deserialize_decode(s, c, message, before.trace)

serialize_finish_early(s, c, tr) ==
    LET after == fire_event(s, "after_serialize")
    IN  IF s.cleanup_namespaces
        THEN Result(s, [c EXCEPT !.out_document =
                           Some(cleanup_namespaces(Val(c.out_document)))],
                    after.exc, None,
                    tr \o after.trace \o <<Step("cleanup_namespaces", "")>>,
                    NoLog)
        ELSE Result(s, c, after.exc, None, tr \o after.trace, NoLog)

\* XmlDocument.serialize, lines 415-420: namespace cleanup, the after event
\* and the return of retval, once the encoded element is in ctx.out_document
serialize_finish(s, c, tr) ==
    LET after == fire_event(s, "after_serialize")
    IN  IF s.cleanup_namespaces
        THEN Result(s, [c EXCEPT !.out_document =
                           Some(cleanup_namespaces(Val(c.out_document)))],
                    after.exc, None,
                    tr \o <<Step("cleanup_namespaces", "")>> \o after.trace,
                    NoLog)
        ELSE Result(s, c, after.exc, None, tr \o after.trace, NoLog)

serialize_encode_partial(s, c, cls, value, tr) ==
    IF s.app = "None"
    THEN Result(s, c, Some(Exc("AttributeError", Msg("interface", "", 0))),
                None, tr, NoLog)
    ELSE LET enc == to_parent_element(cls, value, get_tns(s.app))
             tr1 == tr \o <<Step("to_parent_element", enc.handler)>>
         IN  IF enc.exc # NoExc
             THEN Result(s, [c EXCEPT !.out_document =
                                Some(Element(enc.handler, cls, PyNone,
                                             get_tns(s.app)))],
                         enc.exc, None, tr1, NoLog)
             ELSE serialize_finish(s, [c EXCEPT !.out_document = enc.elt],
                                   tr1 \o <<Step("set", "out_document")>>)

\* XmlDocument.serialize, lines 386-390 and 410-413: the value is encoded
\* under a scratch element and the encoded element becomes ctx.out_document
serialize_encode(s, c, cls, value, tr) ==
    IF s.app = "None"
    THEN Result(s, c, Some(Exc("AttributeError", Msg("interface", "", 0))),
                None, tr, NoLog)
    ELSE LET enc == to_parent_element(cls, value, get_tns(s.app))
             tr1 == tr \o <<Step("to_parent_element", enc.handler)>>
         IN  IF enc.exc # NoExc
             THEN Result(s, c, enc.exc, None, tr1, NoLog)
             ELSE serialize_finish(s, [c EXCEPT !.out_document = enc.elt],
                                   tr1 \o <<Step("set", "out_document")>>)

wrap_reversed(cls, out_object) ==
    PyInstance(cls, {<<_type_info(cls)[Len(_type_info(cls)) + 1 - i],
                       out_object[i]>> : i \in DOMAIN _type_info(cls)})

\* XmlDocument.serialize, lines 400-404: the wrapper instance of the message
\* class, its declared fields set from out_object by position
wrap(cls, out_object) ==
    PyInstance(cls, {<<_type_info(cls)[i], out_object[i]>> :
                        i \in DOMAIN _type_info(cls)})

\* XmlDocument.serialize, lines 392-413: no error value
serialize_result(s, c, message, tr) ==
    LET tr1 == tr \o <<Step("read", "descriptor")>>
    IN  IF c.descriptor = None
        THEN Result(s, c,
                    Some(Exc("AttributeError", Msg("in_message", "", 0))),
                    None, tr1, NoLog)
        ELSE
        LET result_message_class == message_class(Val(c.descriptor), message)
            keys == _type_info(result_message_class)
            wrapped == Val(c.descriptor).body_style = "BODY_STYLE_WRAPPED"
            tr2 == tr1 \o <<Step("read", "out_object")>>
        IN  IF wrapped /\ keys # <<>> /\ c.out_object = None
            THEN Result(s, c, Some(Exc("TypeError", NoMsg)), None, tr2, NoLog)
            ELSE IF wrapped /\ keys # <<>>
                    /\ Len(Val(c.out_object)) < Len(keys)
            THEN Result(s, c, Some(Exc("IndexError", NoMsg)), None, tr2,
                        NoLog)
            ELSE serialize_encode(s, c, result_message_class,
                     IF wrapped
                     THEN wrap(result_message_class, Val(c.out_object))
                     ELSE IF c.out_object = None THEN PyNone
                     ELSE PyList(Val(c.out_object)),
                     tr2)

serialize_op_result_first(s, c, message) ==
    LET before == fire_event(s, "before_serialize")
        tr == before.trace \o <<Step("read", "out_error")>>
    IN  IF before.exc # NoExc
        THEN Result(s, c, before.exc, None, before.trace, NoLog)
        ELSE IF c.out_error # None /\ c.out_object = None
        THEN serialize_encode(s, c, Val(c.out_error).type,
                              PyError(Val(c.out_error)), tr)
        ELSE serialize_result(s, c, message, tr)

\* XmlDocument.serialize(ctx, message)
serialize_op(s, c, message) ==
    LET before == fire_event(s, "before_serialize")
        tr == before.trace \o <<Step("read", "out_error")>>
    IN  IF before.exc # NoExc
        THEN Result(s, c, before.exc, None, before.trace, NoLog)
        ELSE IF c.out_error # None
        THEN serialize_encode(s, c, Val(c.out_error).type,
                              PyError(Val(c.out_error)), tr)
        ELSE serialize_result(s, c, message, tr)

(***************************************************************************)
(* Complex types and their XML Schema.  A complex type has a name, a       *)
(* namespace and ordered fields; a field has a type and its customization: *)
(* a wire name (sub_name), a choice group (xml_choice_group), whether it   *)
(* is an XmlAttribute and whether what the attribute wraps is mandatory.   *)
(* A schema document is a tree of nodes: schema > complexType > sequence   *)
(* > element or choice > element, and complexType > attribute.             *)
(***************************************************************************)
Field(name, type, sub_name, group, attribute, mandatory) ==
    [name |-> name, type |-> type, sub_name |-> sub_name,
     xml_choice_group |-> group, attribute |-> attribute,
     mandatory |-> mandatory]

ComplexModel(name, namespace, fields) ==
    [name |-> name, namespace |-> namespace, fields |-> fields]

XsNode(tag, name, type, use, children) ==
    [tag |-> tag, name |-> name, type |-> type, use |-> use,
     children |-> children]

wire_name_native(v) == v.name

\* the name a field is declared under: its sub_name when it has one
wire_name(v) == IF v.sub_name # "None" THEN v.sub_name ELSE v.name

Groups == {"numbers", "letters"}

RECURSIVE add_members_choice_each(_, _, _, _)
add_members_choice_each(fields, i, sequence, choice_tags) ==
    IF i > Len(fields) THEN sequence
    ELSE LET v == fields[i]
             member == XsNode("element", wire_name(v), v.type, "None", <<>>)
         IN  IF v.attribute
             THEN add_members_choice_each(fields, i + 1, sequence,
                                          choice_tags)
             ELSE IF v.xml_choice_group = "None"
             THEN add_members_choice_each(fields, i + 1,
                                          Append(sequence, member),
                                          choice_tags)
             ELSE add_members_choice_each(fields, i + 1,
                      Append(sequence,
                             XsNode("choice", "None", "None", "None",
                                    <<member>>)),
                      choice_tags)

\* the children of the xs:sequence of a complex type: the element fields in
\* declared order, the members of a choice group under one xs:choice that
\* stands where the group's first member is declared; choice_tags maps a
\* group to the position of its xs:choice (0: none yet)
RECURSIVE add_members(_, _, _, _)
add_members(fields, i, sequence, choice_tags) ==
    IF i > Len(fields) THEN sequence
    ELSE LET v == fields[i]
             member == XsNode("element", wire_name(v), v.type, "None", <<>>)
             g == v.xml_choice_group
         IN  IF v.attribute
             THEN add_members(fields, i + 1, sequence, choice_tags)
             ELSE IF g = "None"
             THEN add_members(fields, i + 1, Append(sequence, member),
                              choice_tags)
             ELSE IF choice_tags[g] = 0
             THEN add_members(fields, i + 1,
                      Append(sequence,
                             XsNode("choice", "None", "None", "None",
                                    <<member>>)),
                      [choice_tags EXCEPT ![g] = Len(sequence) + 1])
             ELSE add_members(fields, i + 1,
                      [sequence EXCEPT ![choice_tags[g]].children =
                                           Append(@, member)],
                      choice_tags)

\* the xs:attribute declarations of a complex type, in declared order
RECURSIVE add_attributes(_, _)
add_attributes(fields, i) ==
    IF i > Len(fields) THEN <<>>
    ELSE (IF fields[i].attribute
          THEN <<XsNode("attribute", wire_name(fields[i]), fields[i].type,
                        IF fields[i].mandatory THEN "required" ELSE "None",
                        <<>>)>>
          ELSE <<>>)
         \o add_attributes(fields, i + 1)

\* the xs:complexType of a complex type
complex_add(cls) ==
    XsNode("complexType", cls.name, "None", "None",
           <<XsNode("sequence", "None", "None", "None",
                    add_members(cls.fields, 1, <<>>, [g \in Groups |-> 0]))>>
               \o add_attributes(cls.fields, 1))

\* get_schema_documents([cls])['tns']: the schema document of the class's
\* namespace, with the complexType and the element of the class
get_schema_documents_op(cls) ==
    XsNode("schema", cls.namespace, "None", "None",
           <<complex_add(cls),
             XsNode("element", cls.name, cls.name, "None", <<>>)>>)

RECURSIVE process_sequence_elements_only(_, _)
process_sequence_elements_only(nodes, i) ==
    IF i > Len(nodes) THEN <<>>
    ELSE (IF nodes[i].tag = "choice"
          THEN <<>>
          ELSE <<Field(nodes[i].name, nodes[i].type, "None", "None", FALSE,
                       FALSE)>>)
         \o process_sequence_elements_only(nodes, i + 1)

\* the validation schema compiled from a schema document: the elements it
\* declares, at the top, in a sequence or in a choice, and the attributes
\* its complexType requires, in declared order
XMLSchema(app, doc) ==
    LET top == {doc.children[i] : i \in DOMAIN doc.children}
        types == {n \in top : n.tag = "complexType"}
        inside(n) == {n.children[i] : i \in DOMAIN n.children}
        sequences == UNION {{m \in inside(n) : m.tag = "sequence"} :
                               n \in types}
        members == UNION {inside(n) : n \in sequences}
        choices == {m \in members : m.tag = "choice"}
        elements == {n \in top \cup members \cup UNION {inside(c) :
                                                            c \in choices} :
                        n.tag = "element"}
        ct == CHOOSE n \in types : TRUE
        required == SelectSeq(ct.children,
                              LAMBDA n : n.tag = "attribute"
                                         /\ n.use = "required")
    IN  [app |-> app, tns |-> doc.name,
         elements |-> {n.name : n \in elements},
         required |-> [k \in DOMAIN required |-> required[k].name]]

\* parse_schema_element: the fields the children of an xs:sequence declare,
\* those of an xs:choice included
RECURSIVE process_sequence(_, _)
process_sequence(nodes, i) ==
    IF i > Len(nodes) THEN <<>>
    ELSE (IF nodes[i].tag = "choice"
          THEN [j \in DOMAIN nodes[i].children |->
                   Field(nodes[i].children[j].name,
                         nodes[i].children[j].type, "None", "None", FALSE,
                         FALSE)]
          ELSE <<Field(nodes[i].name, nodes[i].type, "None", "None", FALSE,
                       FALSE)>>)
         \o process_sequence(nodes, i + 1)

\* parse_schema_element: the fields of an xs:complexType, the elements of
\* its sequence and then its attributes
RECURSIVE process_complex_type(_, _)
process_complex_type(nodes, i) ==
    IF i > Len(nodes) THEN <<>>
    ELSE (IF nodes[i].tag = "sequence"
          THEN process_sequence(nodes[i].children, 1)
          ELSE <<Field(nodes[i].name, nodes[i].type, "None", "None", TRUE,
                       nodes[i].use = "required")>>)
         \o process_complex_type(nodes, i + 1)

\* parse_schema_element(schema): the types and the elements the schema
\* document declares, for its target namespace
parse_schema_element_op(schema) ==
    LET top == {schema.children[i] : i \in DOMAIN schema.children}
    IN  [tns |-> schema.name,
         types |-> {ComplexModel(n.name, schema.name,
                                 process_complex_type(n.children, 1)) :
                        n \in {m \in top : m.tag = "complexType"}},
         elements |-> {n.name : n \in {m \in top : m.tag = "element"}}]

\* cls._type_info as a mapping: the declared name of every field with its
\* type, an XmlAttribute type being told from a plain one
type_info_dict(cls) ==
    {<<cls.fields[i].name, cls.fields[i].type, cls.fields[i].attribute>> :
        i \in DOMAIN cls.fields}

(***************************************************************************)
(* Inputs.                                                                 *)
(***************************************************************************)
Strings(n) == UNION {[1..k -> Tok] : k \in 0..n}

\* the fragments of string s cut at the positions cuts (nondecreasing)
Fragments(s, cuts) ==
    [i \in 1..(Len(cuts) + 1) |->
        SubSeq(s, (IF i = 1 THEN 0 ELSE cuts[i - 1]) + 1,
                  IF i = Len(cuts) + 1 THEN Len(s) ELSE cuts[i])]

\* the cut positions that deliver a string in at most MaxFrags fragments
Cuts == UNION {[1..(m - 1) -> 0..MaxLen] : m \in 1..MaxFrags}

\* every way the transport can deliver a string of at most MaxLen tokens in
\* at most MaxFrags fragments, as bytes or as text
InStrings ==
    {[frags |-> Fragments(d.s, d.cuts), unicode |-> d.u] :
        d \in {e \in [s : Strings(MaxLen), u : BOOLEAN, cuts : Cuts] :
                  /\ \A i \in DOMAIN e.cuts : e.cuts[i] <= Len(e.s)
                  /\ \A i \in 1..(Len(e.cuts) - 1) :
                        e.cuts[i] <= e.cuts[i + 1]}}

\* byte strings without a declaration that open with a tag and end with a
\* close tag, delivered in one piece
PlainInStrings ==
    {[frags |-> <<s>>, unicode |-> FALSE] :
        s \in {t \in UNION {[1..k -> Tags \cup {Close}] : k \in 2..MaxLen} :
                  t[1] \in Tags /\ t[Len(t)] = Close}}

Charsets == {"None", "utf-8"}

Descriptors ==
    {[in_message |-> "Req", out_message |-> "Resp", body_style |-> b] :
        b \in {"BODY_STYLE_WRAPPED", "BODY_STYLE_BARE"}}

InErrors == {None, Some(Fault("Client.ResourceNotFound", Msg("gone", "", 0)))}

OutErrors ==
    {Some(Fault("Server", Msg("boom", "", 0))),
     Some(SchemaValidationError(Msg("late", "", 0))),
     Some(Fault("bad", Msg("boom", "", 0))),
     Some(Exc("KeyError", Msg("k", "", 0)))}

OutObjects ==
    {None} \cup {Some(o) : o \in UNION {[1..k -> Values] : k \in 1..2}}

Observers == {"none", "ok", "fails"}

MaxFields == 3

FieldNames == <<"a", "b", "c", "d", "e">>

SubNames == <<"aa", "bb", "cc", "dd", "ee">>

\* the customizations of a field: an Integer or Unicode element, renamed on
\* the wire or not, in a choice group or not; or an XmlAttribute wrapping
\* Unicode or Mandatory(Unicode)
Customizations ==
    [type : {"Integer", "Unicode"}, sub : BOOLEAN,
     group : {"None"} \cup Groups, attribute : {FALSE}, mandatory : {FALSE}]
    \cup [type : {"Unicode"}, sub : {FALSE}, group : {"None"},
          attribute : {TRUE}, mandatory : BOOLEAN]

\* plain Integer elements and attributes only
AttributeCustomizations ==
    {k \in Customizations :
        k.attribute \/ (k.type = "Integer" /\ ~k.sub /\ k.group = "None")}

\* documents for a class: a root of the class's name with some of the
\* class's attributes and at most one child, declared by the class or not
Instances(cls) ==
    LET fields == {cls.fields[i] : i \in DOMAIN cls.fields}
        attributes == {wire_name(f) : f \in {v \in fields : v.attribute}}
        elements == {wire_name(f) : f \in {v \in fields : ~v.attribute}}
    IN  {<<[tag |-> cls.name, depth |-> 1, attrs |-> a]>> \o child :
            a \in SUBSET attributes,
            child \in {<<>>} \cup {<<Node(t, 2)>> :
                                      t \in elements \cup {"zz"}}}

\* the classes of at most MaxFields fields with the given customizations
ComplexModels(customizations) ==
    UNION {{ComplexModel("C", "aa",
                [i \in 1..n |->
                    Field(FieldNames[i], k[i].type,
                          IF k[i].sub THEN SubNames[i] ELSE "None",
                          k[i].group, k[i].attribute, k[i].mandatory)]) :
               k \in [1..n -> customizations]} : n \in 0..MaxFields}

(***************************************************************************)
(* Actions.  pc.req is the stage of the request on the context.  call,     *)
(* raised, retval, trace and logged describe the last call of a pipeline   *)
(* method and pre is the state it started from; a step of the environment  *)
(* resets them.                                                            *)
(***************************************************************************)
Done(op, message, arg, r) ==
    /\ self' = r.self
    /\ ctx' = r.ctx
    /\ raised' = r.exc
    /\ retval' = r.ret
    /\ trace' = r.trace
    /\ logged' = r.log
    /\ pre' = [self |-> self, ctx |-> ctx]
    /\ call' = [op |-> op, message |-> message, arg |-> arg]
    /\ ctor' = ctor
    /\ xsd' = xsd

Env(op, arg, s, c, exc) ==
    /\ self' = s
    /\ ctx' = c
    /\ raised' = exc
    /\ retval' = None
    /\ trace' = <<>>
    /\ logged' = NoLog
    /\ pre' = [self |-> s, ctx |-> c]
    /\ call' = [op |-> op, message |-> "", arg |-> arg]
    /\ ctor' = ctor
    /\ xsd' = xsd

Quiet == pc.writer = "idle" /\ pc.reader = "idle"

set_app(value) ==
    /\ Quiet
    /\ pc.req = "idle"
    /\ LET r == set_app_op(self, value)
       IN  Env("set_app", value, r.self, ctx, r.exc)
    /\ UNCHANGED <<pc, rd>>

set_validator(validator) ==
    /\ Quiet
    /\ pc.req = "idle"
    /\ LET r == set_validator_op(self, validator)
       IN  Env("set_validator", validator, r.self, ctx, r.exc)
    /\ UNCHANGED <<pc, rd>>

\* event_manager.add_listener / remove_listener
add_listener(observer) ==
    /\ Quiet
    /\ pc.req = "idle"
    /\ self.observers # observer
    /\ Env("add_listener", observer, [self EXCEPT !.observers = observer],
           ctx, NoExc)
    /\ UNCHANGED <<pc, rd>>

\* the transport receives a message, one of in_strings, on a fresh context
NewRequest(in_strings) ==
    /\ Quiet
    /\ pc.req = "idle"
    /\ \E in_string \in in_strings :
            Env("MethodContext", "in_string", self,
                [MethodContext EXCEPT !.in_string = in_string], NoExc)
    /\ pc' = [pc EXCEPT !.req = "received"]
    /\ UNCHANGED rd

\* the request is over and its context is dropped
EndRequest ==
    /\ Quiet
    /\ pc.req # "idle"
    /\ Env("MethodContext", "", self, MethodContext, NoExc)
    /\ pc' = [pc EXCEPT !.req = "idle"]
    /\ UNCHANGED rd

create_in_document(charset) ==
    /\ Quiet
    /\ pc.req = "received"
    /\ LET r == create_in_document_op(self, ctx, charset)
       IN  /\ Done("create_in_document", "", charset, r)
           /\ pc' = [pc EXCEPT !.req = IF r.exc = NoExc THEN "parsed"
                                       ELSE "failed"]
    /\ UNCHANGED rd

decompose_incoming_envelope(message) ==
    /\ Quiet
    /\ pc.req = "parsed"
    /\ LET r == decompose_incoming_envelope_op(self, ctx, message)
       IN  /\ Done("decompose_incoming_envelope", message, "", r)
           /\ pc' = [pc EXCEPT !.req = IF r.exc = NoExc THEN "decomposed"
                                       ELSE "failed"]
    /\ UNCHANGED rd

validate_body(message) ==
    /\ Quiet
    /\ pc.req = "decomposed"
    /\ LET r == validate_body_op(self, ctx, message)
       IN  Done("validate_body", message, "", r)
    /\ UNCHANGED <<pc, rd>>

\* the application looks the method up and sets ctx.descriptor, or records
\* why there is none in ctx.in_error; it does so for the extracted body, or
\* for a message that came without a document and has no body
set_method_descriptor(descriptor, in_error) ==
    /\ Quiet
    /\ pc.req \in {"received", "decomposed"}
    /\ descriptor # None => in_error = None
    /\ Env("set_method_descriptor", "", self,
           [ctx EXCEPT !.descriptor = descriptor, !.in_error = in_error],
           NoExc)
    /\ pc' = [pc EXCEPT !.req = "described"]
    /\ UNCHANGED rd

deserialize(message) ==
    /\ Quiet
    /\ pc.req = "described"
    /\ LET r == deserialize_op(self, ctx, message)
       IN  /\ Done("deserialize", message, "", r)
           /\ pc' = [pc EXCEPT !.req = IF r.exc = NoExc THEN "deserialized"
                                       ELSE "failed"]
    /\ UNCHANGED rd

\* a context about to be serialized: the user method returned out_object or
\* raised out_error; out_document is what an earlier stage left there
NewResult ==
    /\ Quiet
    /\ pc.req = "idle"
    /\ \E descriptor \in {None} \cup {Some(d) : d \in Descriptors},
          out_object \in OutObjects, out_error \in {None} \cup OutErrors,
          out_document \in {None, Some(Element("stale", "Resp", PyNone,
                                               "ns1"))} :
            /\ out_error # None => out_object \in {None, Some(<<"v1">>)}
            /\ Env("MethodContext", "out_object", self,
                   [MethodContext EXCEPT !.descriptor = descriptor,
                                         !.out_object = out_object,
                                         !.out_error = out_error,
                                         !.out_document = out_document],
                   NoExc)
    /\ pc' = [pc EXCEPT !.req = "result"]
    /\ UNCHANGED rd

serialize(message) ==
    /\ Quiet
    /\ pc.req = "result"
    /\ LET r == serialize_op(self, ctx, message)
       IN  /\ Done("serialize", message, "", r)
           /\ pc' = [pc EXCEPT !.req = IF r.exc = NoExc THEN "serialized"
                                       ELSE "failed"]
    /\ UNCHANGED rd

(***************************************************************************)
(* Calls of to_parent_element and from_element on their own, for any       *)
(* class.  trace keeps the last resolutions: the method and the class,     *)
(* then the handler the table gave.                                        *)
(***************************************************************************)
Classes ==
    {"Req", "Resp", "Fault", "SchemaValidationError", "UserFault", "Array",
     "Integer", "Unicode", "KeyError", "int"}

MaxCalls == 2

Resolutions(op, cls, handler) ==
    (IF Len(trace) < 2 * MaxCalls THEN trace ELSE <<>>)
        \o <<Step(op, cls), Step("handler", handler)>>

to_parent_element_call(cls, value) ==
    /\ Quiet
    /\ pc.req = "idle"
    /\ self.app # "None"
    /\ LET r == to_parent_element(cls, value, get_tns(self.app))
       IN  Done("to_parent_element", "", cls,
                Result(self, ctx, r.exc, r.elt,
                       Resolutions("to_parent_element", cls, r.handler),
                       NoLog))
    /\ UNCHANGED <<pc, rd>>

from_element_call(cls, element) ==
    /\ Quiet
    /\ pc.req = "idle"
    /\ LET r == from_element(cls, element)
       IN  Done("from_element", "", cls,
                Result(self, ctx, r.exc, r.value,
                       Resolutions("from_element", cls, r.handler), NoLog))
    /\ UNCHANGED <<pc, rd>>

(***************************************************************************)
(* The schema document of a class and what the importer reads back from    *)
(* it.                                                                     *)
(***************************************************************************)
get_schema_documents ==
    /\ Quiet
    /\ pc.req = "idle"
    /\ xsd.cls # None
    /\ xsd.docs = None
    /\ xsd' = [xsd EXCEPT !.docs = Some(get_schema_documents_op(Val(xsd.cls)))]
    /\ call' = [op |-> "get_schema_documents", message |-> "", arg |-> ""]
    /\ UNCHANGED <<self, ctor, ctx, pre, raised, retval, trace, logged, pc,
                   rd>>

parse_schema_element ==
    /\ Quiet
    /\ pc.req = "idle"
    /\ xsd.docs # None
    /\ xsd.objects = None
    /\ xsd' = [xsd EXCEPT !.objects =
                              Some(parse_schema_element_op(Val(xsd.docs)))]
    /\ call' = [op |-> "parse_schema_element", message |-> "", arg |-> ""]
    /\ UNCHANGED <<self, ctor, ctx, pre, raised, retval, trace, logged, pc,
                   rd>>

\* the application whose interface is the class
ClassApp == "app3"

\* set_app(Application of the class): lines 423-433 with the schema
\* documents of the class
set_app_of_class ==
    /\ Quiet
    /\ pc.req = "idle"
    /\ xsd.cls # None
    /\ self.app # ClassApp
    /\ Env("set_app", ClassApp,
           [set_app_clear(ProtocolBase_set_app(self, ClassApp))
               EXCEPT !.validation_schema =
                   Some(XMLSchema(ClassApp,
                                  get_schema_documents_op(Val(xsd.cls))))],
           ctx, NoExc)
    /\ UNCHANGED <<pc, rd>>

\* a document for the class was received and parsed into ctx.in_document
NewInstance ==
    /\ Quiet
    /\ pc.req = "idle"
    /\ xsd.cls # None
    /\ \E doc \in Instances(Val(xsd.cls)) :
            Env("MethodContext", "in_document", self,
                [MethodContext EXCEPT !.in_document = Some(doc)], NoExc)
    /\ pc' = [pc EXCEPT !.req = "parsed"]
    /\ UNCHANGED rd

(***************************************************************************)
(* Two threads on one protocol object: a writer that runs set_app one      *)
(* statement at a time and a reader that runs __validate_lxml on the body  *)
(* of its own request.  rd.value is the writer's argument, rd.payload the  *)
(* reader's document and rd.seen what each read of self.validation_schema  *)
(* returned.                                                               *)
(***************************************************************************)
NoReads == [value |-> "None", payload |-> <<>>, seen |-> <<>>]

\* line 423
set_app_l423(value) ==
    /\ pc.writer = "idle"
    /\ self' = ProtocolBase_set_app(self, value)
    /\ rd' = [rd EXCEPT !.value = value]
    /\ pc' = [pc EXCEPT !.writer = "l425"]
    /\ UNCHANGED <<ctor, ctx, pre, call, raised, retval, trace, logged, xsd>>

\* line 425
set_app_l425 ==
    /\ pc.writer = "l425"
    /\ self' = set_app_clear(self)
    /\ pc' = [pc EXCEPT !.writer = "l427"]
    /\ UNCHANGED <<ctor, ctx, pre, call, raised, retval, trace, logged, rd,
                   xsd>>

\* lines 427-433
set_app_l427 ==
    /\ pc.writer = "l427"
    /\ self' = set_app_build(self, rd.value)
    /\ rd' = [rd EXCEPT !.value = "None"]
    /\ pc' = [pc EXCEPT !.writer = "idle"]
    /\ UNCHANGED <<ctor, ctx, pre, call, raised, retval, trace, logged, xsd>>

\* a request enters __validate_lxml with its body
validate_lxml_enter(payload) ==
    /\ pc.reader = "idle"
    /\ self.validate_document = "__validate_lxml"
    /\ rd' = [rd EXCEPT !.payload = payload, !.seen = <<>>]
    /\ raised' = NoExc
    /\ pc' = [pc EXCEPT !.reader = "l436"]
    /\ UNCHANGED <<self, ctor, ctx, pre, call, retval, trace, logged, xsd>>

\* line 436: self.validation_schema.validate(payload)
validate_lxml_l436 ==
    /\ pc.reader = "l436"
    /\ rd' = [rd EXCEPT !.seen = Append(rd.seen, self.validation_schema)]
    /\ IF self.validation_schema = None
       THEN /\ raised' = Some(Exc("AttributeError", Msg("validate", "", 0)))
            /\ pc' = [pc EXCEPT !.reader = "idle"]
       ELSE /\ raised' = NoExc
            /\ pc' = [pc EXCEPT !.reader =
                         IF validate(Val(self.validation_schema), rd.payload)
                         THEN "idle" ELSE "l441"]
    /\ UNCHANGED <<self, ctor, ctx, pre, call, retval, trace, logged, xsd>>

\* lines 439-441: self.validation_schema.error_log.last_error, the log of
\* the schema object that validated
validate_lxml_l441 ==
    /\ pc.reader = "l441"
    /\ rd' = [rd EXCEPT !.seen = Append(rd.seen, self.validation_schema)]
    /\ raised' = IF self.validation_schema = None
                 THEN Some(Exc("AttributeError", Msg("error_log", "", 0)))
                 ELSE Some(SchemaValidationError(
                               last_error(Val(rd.seen[1]), rd.payload)))
    /\ pc' = [pc EXCEPT !.reader = "idle"]
    /\ UNCHANGED <<self, ctor, ctx, pre, call, retval, trace, logged, xsd>>

(***************************************************************************)
(* Specifications.                                                         *)
(***************************************************************************)
Idle == [req |-> "idle", writer |-> "idle", reader |-> "idle"]

\* no class handed to the schema generator, no schema document, nothing
\* imported
NoDocs == [cls |-> None, docs |-> None, objects |-> None]

\* the state after XmlDocument(**args), args being the defaults with the
\* keyword argument flag (if any) given as value
Built(args, flag, value, debug) ==
    /\ self = XmlDocument_init(args, debug)
    /\ ctor = [args |-> args, flag |-> flag, value |-> value]
    /\ ctx = MethodContext
    /\ pre = [self |-> XmlDocument_init(args, debug), ctx |-> MethodContext]
    /\ call = [op |-> "__init__", message |-> "", arg |-> flag]
    /\ raised = NoExc
    /\ retval = None
    /\ trace = <<>>
    /\ logged = NoLog
    /\ pc = Idle
    /\ rd = NoReads

Constructed(args, flag, value, debug) ==
    /\ Built(args, flag, value, debug)
    /\ xsd = NoDocs

\* XmlDocument(cleanup_namespaces=...), with the logger at DEBUG or not
Init ==
    \E cleanup \in BOOLEAN, debug \in BOOLEAN :
        Constructed([DefaultArgs EXCEPT !.cleanup_namespaces = cleanup],
                    "cleanup_namespaces", cleanup, debug)

Next ==
    \/ \E value \in Apps \cup {"None"} : set_app(value)
    \/ \E validator \in ValidatorArgs \cup {"strict"} :
            set_validator(validator)
    \/ \E observer \in Observers : add_listener(observer)
    \/ NewRequest(PlainInStrings)
    \/ EndRequest
    \/ \E charset \in Charsets : create_in_document(charset)
    \/ \E message \in Messages : decompose_incoming_envelope(message)
    \/ \E message \in Messages : validate_body(message)
    \/ \E descriptor \in {None} \cup {Some(d) : d \in Descriptors},
          in_error \in InErrors :
            set_method_descriptor(descriptor, in_error)
    \/ \E message \in Messages : deserialize(message)
    \/ NewResult
    \/ \E message \in Messages : serialize(message)

Spec == Init /\ [][Next]_vars

(***************************************************************************)
(* Construction with any one parser argument, an application and a         *)
(* validator, followed by the configuration calls.                         *)
(***************************************************************************)
InitCtor ==
    \E flag \in ParserFlags, value \in BOOLEAN, app \in {"None", "app1"},
       validator \in {"None", "soft", "lxml"} :
        Constructed([DefaultArgs EXCEPT ![flag] = value, !.app = app,
                                        !.validator = validator],
                    flag, value, FALSE)

NextCtor ==
    \/ \E value \in Apps \cup {"None"} : set_app(value)
    \/ \E validator \in ValidatorArgs \cup {"strict"} :
            set_validator(validator)
    \/ \E observer \in Observers : add_listener(observer)

SpecCtor == InitCtor /\ [][NextCtor]_vars

(***************************************************************************)
(* Parsing: every delivery of every token string, with the parser's        *)
(* recover argument off (the default) or on.                               *)
(***************************************************************************)
InitParse ==
    \E recover \in BOOLEAN :
        Constructed([DefaultArgs EXCEPT !.recover = recover], "recover",
                    recover, FALSE)

NextParse ==
    \/ NewRequest(InStrings)
    \/ EndRequest
    \/ \E charset \in Charsets : create_in_document(charset)

SpecParse == InitParse /\ [][NextParse]_vars

(***************************************************************************)
(* Requests validating while the application is reassigned: the protocol   *)
(* was built with validator='lxml' and then given app1.                    *)
(***************************************************************************)
Documents ==
    {Scan(i.frags[1], 1, 0, <<>>, FALSE).nodes :
        i \in {j \in PlainInStrings : WellFormed(j.frags[1])}}

InitConc ==
    /\ ctor = [args |-> [DefaultArgs EXCEPT !.validator = "lxml"],
               flag |-> "validator", value |-> TRUE]
    /\ self = set_app_op(XmlDocument_init(
                            [DefaultArgs EXCEPT !.validator = "lxml"], FALSE),
                         "app1").self
    /\ ctx = MethodContext
    /\ pre = [self |-> self, ctx |-> MethodContext]
    /\ call = [op |-> "set_app", message |-> "", arg |-> "app1"]
    /\ raised = NoExc
    /\ retval = None
    /\ trace = <<>>
    /\ logged = NoLog
    /\ pc = Idle
    /\ rd = NoReads
    /\ xsd = NoDocs

NextConc ==
    \/ \E value \in Apps \cup {"None"} : set_app_l423(value)
    \/ set_app_l425
    \/ set_app_l427
    \/ \E payload \in Documents : validate_lxml_enter(payload)
    \/ validate_lxml_l436
    \/ validate_lxml_l441

SpecConc == InitConc /\ [][NextConc]_vars

(***************************************************************************)
(* Encoding and decoding values of any class, on a protocol with an        *)
(* application.                                                            *)
(***************************************************************************)
InitResolve ==
    /\ ctor = [args |-> [DefaultArgs EXCEPT !.app = "app1"], flag |-> "app",
               value |-> TRUE]
    /\ self = XmlDocument_init([DefaultArgs EXCEPT !.app = "app1"], FALSE)
    /\ ctx = MethodContext
    /\ pre = [self |-> self, ctx |-> MethodContext]
    /\ call = [op |-> "__init__", message |-> "", arg |-> "app"]
    /\ raised = NoExc
    /\ retval = None
    /\ trace = <<>>
    /\ logged = NoLog
    /\ pc = Idle
    /\ rd = NoReads
    /\ xsd = NoDocs

NextResolve ==
    \/ \E cls \in Classes, value \in {PyNone, PyList(<<"v1">>),
                                      PyList(<<"bad">>)} :
            to_parent_element_call(cls, value)
    \/ \E cls \in Classes, element \in Documents :
            from_element_call(cls, element)

SpecResolve == InitResolve /\ [][NextResolve]_vars

(***************************************************************************)
(* A class is defined, its schema document is generated and the document   *)
(* is imported.                                                            *)
(***************************************************************************)
InitSchema ==
    /\ Built(DefaultArgs, "", FALSE, FALSE)
    /\ \E cls \in ComplexModels(Customizations) :
            xsd = [cls |-> Some(cls), docs |-> None, objects |-> None]

NextSchema ==
    \/ get_schema_documents
    \/ parse_schema_element

SpecSchema == InitSchema /\ [][NextSchema]_vars

(***************************************************************************)
(* A class with attributes, a protocol built with validator='lxml', the    *)
(* configuration calls and documents for the class.                        *)
(***************************************************************************)
InitMandatory ==
    /\ Built([DefaultArgs EXCEPT !.validator = "lxml"], "validator", TRUE,
             FALSE)
    /\ \E cls \in ComplexModels(AttributeCustomizations) :
            xsd = [cls |-> Some(cls), docs |-> None, objects |-> None]

NextMandatory ==
    \/ get_schema_documents
    \/ set_app_of_class
    \/ \E validator \in {"lxml", "soft"} : set_validator(validator)
    \/ NewInstance
    \/ EndRequest
    \/ \E message \in Messages : decompose_incoming_envelope(message)
    \/ \E message \in Messages : validate_body(message)

SpecMandatory == InitMandatory /\ [][NextMandatory]_vars

(***************************************************************************)
(* Properties.                                                             *)
(***************************************************************************)
TraceHas(step) == \E i \in DOMAIN trace : trace[i] = step

Count(step) == Cardinality({i \in DOMAIN trace : trace[i] = step})

IndexOf(step) == CHOOSE i \in DOMAIN trace : trace[i] = step

\* the last call validated a body: validate_body, directly or at the end of
\* decompose_incoming_envelope
Validated ==
    /\ call.op \in {"validate_body", "decompose_incoming_envelope"}
    /\ ctx.in_body_doc # None

\* the positions of the elements of doc that the schema does not declare
Undeclared(schema, doc) == {i \in DOMAIN doc : doc[i].tag \notin schema.elements}

Last(positions) == CHOOSE i \in positions : \A j \in positions : j <= i

\* C1: with the schema validator active and a compiled validation schema,
\* validate_body (alone or inside decompose_incoming_envelope) raises
\* SchemaValidationError with fault code 'Client.SchemaValidationError' and
\* the last error of the validator's log as fault string when the body fails
\* validation, and raises nothing when the body passes.
C1_SchemaValidationError ==
    (/\ Validated
     /\ pre.self.validator = "SCHEMA_VALIDATION"
     /\ pre.self.validation_schema # None)
    => LET schema == Val(pre.self.validation_schema)
           doc == Val(ctx.in_body_doc)
           bad == Undeclared(schema, doc)
       IN  IF bad = {}
           THEN raised = NoExc
           ELSE /\ raised # NoExc
                /\ Val(raised).type = "SchemaValidationError"
                /\ Val(raised).faultcode = "Client.SchemaValidationError"
                /\ Val(raised).faultstring =
                       Msg("element not expected", doc[Last(bad)].tag,
                           Last(bad))

\* a body with two undeclared elements was refused
C1_Witness ==
    /\ Validated
    /\ call.op = "decompose_incoming_envelope"
    /\ pre.self.validator = "SCHEMA_VALIDATION"
    /\ pre.self.validation_schema # None
    /\ Cardinality(Undeclared(Val(pre.self.validation_schema),
                              Val(ctx.in_body_doc))) = 2
    /\ raised # NoExc
    /\ Val(raised).type = "SchemaValidationError"

\* C2: whenever the protocol's application is not None, validation_schema is
\* the schema compiled for that application.
C2_SchemaFollowsApp ==
    self.app # "None"
    => self.validation_schema = Some(build_validation_schema(self.app))

\* C3: a request validating while set_app runs never reads
\* self.validation_schema as None.
C3_ReaderSeesCompleteSchema ==
    \A i \in DOMAIN rd.seen : rd.seen[i] # None

\* C4: validate_body validates the body against the validation schema if and
\* only if the protocol's validator is SCHEMA_VALIDATION.
C4_ValidatesIffSchemaMode ==
    Validated
    => (TraceHas(Step("validate_document", "__validate_lxml"))
        <=> pre.self.validator = "SCHEMA_VALIDATION")

\* the last call was create_in_document on bytes that are not well-formed
MalformedBytes ==
    /\ call.op = "create_in_document"
    /\ ~pre.ctx.in_string.unicode
    /\ ~WellFormed(_bytes_join(pre.ctx.in_string.frags))

\* what C5 says of such a call: a client fault with the parser's message,
\* in_document left unset, the payload logged to the invalid-traffic logger
\* only
MalformedOutcome ==
    LET string == _bytes_join(pre.ctx.in_string.frags)
    IN  /\ raised = Some(Fault("Client.XMLSyntaxError",
                               Msg("syntax error", "",
                                   Scan(string, 1, 0, <<>>, FALSE).pos)))
        /\ ctx.in_document = None
        /\ logged.logger_invalid = <<LogEntry("string", "", string)>>
        /\ \A i \in DOMAIN logged.logger : logged.logger[i].kind # "string"

\* C5 (as stated): input bytes that are not well-formed XML make
\* create_in_document raise the client fault 'Client.XMLSyntaxError' with the
\* parser's message, leave ctx.in_document unset and log the payload to the
\* invalid-traffic logger only.
C5_MalformedIsClientFault == MalformedBytes => MalformedOutcome

\* C5 (amended): the same, for a protocol whose parser has recover off (the
\* default).
C5_MalformedIsClientFaultUnlessRecover ==
    (MalformedBytes /\ ~pre.self.parser_kwargs.recover) => MalformedOutcome

\* malformed bytes delivered in two pieces were refused
C5_Witness ==
    /\ MalformedBytes
    /\ ~pre.self.parser_kwargs.recover
    /\ Len(pre.ctx.in_string.frags) = 2
    /\ Len(pre.ctx.in_string.frags[1]) > 0
    /\ Len(pre.ctx.in_string.frags[2]) > 0
    /\ raised # NoExc
    /\ Val(raised).faultcode = "Client.XMLSyntaxError"

\* the defaults C6 names, and the constructor's for the other flags
ClaimedDefault(flag) ==
    CASE flag = "no_network" -> TRUE
      [] flag = "load_dtd" -> FALSE
      [] flag = "dtd_validation" -> FALSE
      [] flag = "resolve_entities" -> FALSE
      [] flag = "remove_pis" -> TRUE
      [] flag = "huge_tree" -> FALSE
      [] OTHER -> DefaultArgs[flag]

\* C6: the stored parser configuration has every flag at its default
\* (no_network on, load_dtd, dtd_validation, resolve_entities and huge_tree
\* off, remove_pis on) except the one flag passed to the constructor, which
\* has the value passed.
C6_ParserConfiguration ==
    \A flag \in ParserFlags :
        self.parser_kwargs[flag] =
            IF flag = ctor.flag THEN ctor.value ELSE ClaimedDefault(flag)

\* a protocol built with load_dtd=True, after later configuration calls
C6_Witness ==
    /\ ctor.flag = "load_dtd"
    /\ ctor.value = TRUE
    /\ self.parser_kwargs.load_dtd
    /\ call.op = "set_validator"

\* the fault encoding of the error e by a protocol s
FaultEncoding(s, e) ==
    LET elt == Element(cdict_getitem(serialization_handlers, __mro__(e.type)),
                       e.type, PyError(e), get_tns(s.app))
    IN  IF s.cleanup_namespaces THEN cleanup_namespaces(elt) ELSE elt

\* C7: when ctx.out_error is not None, serialize reads neither ctx.descriptor
\* nor ctx.out_object, and the out_document it produces is the fault encoding
\* of ctx.out_error by the handler of the error's own class, for REQUEST and
\* RESPONSE alike.
C7_ErrorReplacesBody ==
    (call.op = "serialize" /\ pre.ctx.out_error # None)
    => /\ ~TraceHas(Step("read", "descriptor"))
       /\ ~TraceHas(Step("read", "out_object"))
       /\ raised = NoExc
          => ctx.out_document =
                 Some(FaultEncoding(pre.self, Val(pre.ctx.out_error)))

\* an error was serialized although a descriptor and a result were there
C7_Witness ==
    /\ call.op = "serialize"
    /\ call.message = "RESPONSE"
    /\ pre.ctx.out_error # None
    /\ pre.ctx.descriptor # None
    /\ pre.ctx.out_object # None
    /\ raised = NoExc
    /\ Val(ctx.out_document).handler = "fault_to_parent_element"

\* C8: with no error value, serialize encodes, for the class in_message
\* (REQUEST) or out_message (RESPONSE): under the wrapped body style an
\* instance of that class whose i-th declared field holds ctx.out_object[i],
\* under any other body style ctx.out_object itself.
C8_ResultAssembly ==
    (call.op = "serialize" /\ pre.ctx.out_error = None /\ raised = NoExc)
    => LET d == Val(pre.ctx.descriptor)
           cls == IF call.message = "REQUEST" THEN d.in_message
                  ELSE d.out_message
           elt == Val(ctx.out_document)
           names == _type_info(cls)
       IN  /\ elt.cls = cls
           /\ IF d.body_style = "BODY_STYLE_WRAPPED"
              THEN /\ elt.value.kind = "instance"
                   /\ elt.value.cls = cls
                   /\ elt.value.attrs =
                          {<<names[i], Val(pre.ctx.out_object)[i]>> :
                              i \in DOMAIN names}
              ELSE elt.value = IF pre.ctx.out_object = None THEN PyNone
                               ELSE PyList(Val(pre.ctx.out_object))

\* a wrapped request with two different values was serialized
C8_Witness ==
    /\ call.op = "serialize"
    /\ call.message = "REQUEST"
    /\ pre.ctx.out_error = None
    /\ raised = NoExc
    /\ Val(pre.ctx.descriptor).body_style = "BODY_STYLE_WRAPPED"
    /\ pre.ctx.out_object = Some(<<"v1", "v2">>)

BeforeEvent == Step("fire_event", IF call.op = "deserialize"
                                  THEN "before_deserialize"
                                  ELSE "before_serialize")

AfterEvent == Step("fire_event", IF call.op = "deserialize"
                                 THEN "after_deserialize"
                                 ELSE "after_serialize")

\* C9: a call of deserialize or serialize fires its before event exactly
\* once and before anything else; a call that returns has fired its after
\* event exactly once, after ctx.in_object (ctx.out_document) was set and
\* after namespace cleanup when cleanup is on; a call that raises has not
\* fired its after event.
C9_EventsAroundTheCall ==
    call.op \in {"deserialize", "serialize"}
    => /\ Count(BeforeEvent) = 1
       /\ trace[1] = BeforeEvent
       /\ raised # NoExc => Count(AfterEvent) = 0
       /\ raised = NoExc
          => /\ Count(AfterEvent) = 1
             /\ LET set == Step("set", IF call.op = "deserialize"
                                       THEN "in_object" ELSE "out_document")
                IN  TraceHas(set) /\ IndexOf(set) < IndexOf(AfterEvent)
             /\ (call.op = "serialize" /\ pre.self.cleanup_namespaces)
                => /\ TraceHas(Step("cleanup_namespaces", ""))
                   /\ IndexOf(Step("cleanup_namespaces", ""))
                          < IndexOf(AfterEvent)

\* serialize returned after cleaning the namespaces up
C9_Witness ==
    /\ call.op = "serialize"
    /\ raised = NoExc
    /\ pre.self.cleanup_namespaces
    /\ Count(AfterEvent) = 1

\* the last call, made again on a protocol without observers
WithoutObservers ==
    IF call.op = "deserialize"
    THEN deserialize_op([pre.self EXCEPT !.observers = "none"], pre.ctx,
                        call.message)
    ELSE serialize_op([pre.self EXCEPT !.observers = "none"], pre.ctx,
                      call.message)

ReachedEncoding ==
    /\ call.op = "serialize"
    /\ \E i \in DOMAIN trace : trace[i].step = "to_parent_element"

\* the encoding call that serialize made: of the error value when there is
\* one, of the assembled result otherwise
Encoding ==
    LET tns == get_tns(pre.self.app)
    IN  IF pre.ctx.out_error # None
        THEN to_parent_element(Val(pre.ctx.out_error).type,
                               PyError(Val(pre.ctx.out_error)), tns)
        ELSE LET d == Val(pre.ctx.descriptor)
                 cls == message_class(d, call.message)
             IN  to_parent_element(cls,
                    IF d.body_style = "BODY_STYLE_WRAPPED"
                    THEN wrap(cls, Val(pre.ctx.out_object))
                    ELSE IF pre.ctx.out_object = None THEN PyNone
                    ELSE PyList(Val(pre.ctx.out_object)),
                    tns)

\* C11: when encoding the result or the error value fails inside serialize,
\* the failure is what serialize raises, ctx.out_document keeps the value it
\* had before the call, and neither namespace cleanup nor 'after_serialize'
\* runs.
C11_OutputAllOrNothing ==
    (ReachedEncoding /\ Encoding.exc # NoExc)
    => /\ raised = Encoding.exc
       /\ ctx.out_document = pre.ctx.out_document
       /\ ctx = pre.ctx
       /\ ~TraceHas(Step("cleanup_namespaces", ""))
       /\ ~TraceHas(Step("fire_event", "after_serialize"))

\* a result that cannot be represented was refused while an earlier
\* document was in ctx.out_document and cleanup was on
C11_Witness ==
    /\ ReachedEncoding
    /\ pre.ctx.out_error = None
    /\ Encoding.exc = Some(Exc("ValueError", Msg("bad", "", 0)))
    /\ raised = Encoding.exc
    /\ pre.self.cleanup_namespaces
    /\ pre.ctx.out_document # None
    /\ ctx.out_document = pre.ctx.out_document

\* the handler registered for the first class of cls's method-resolution
\* order that has one, "KeyError" when no class of it has one
NearestRegistered(handlers, cls) ==
    LET mro == __mro__(cls)
        registered == {i \in DOMAIN mro : mro[i] \in DOMAIN handlers}
    IN  IF registered = {} THEN "KeyError"
        ELSE handlers[mro[CHOOSE i \in registered :
                              \A j \in registered : i <= j]]

\* the table a method looks its handler up in
HandlersOf(op) ==
    IF op = "to_parent_element" THEN serialization_handlers
    ELSE deserialization_handlers

\* C12: to_parent_element and from_element use the handler registered for
\* the first class of the type's method-resolution order that has one;
\* resolving the same type again gives the same handler; when no class of
\* the ancestry is registered the call fails with the unregistered-type
\* error (KeyError) and no handler produces a result.
C12_NearestRegisteredHandler ==
    call.op \in {"to_parent_element", "from_element"}
    => /\ \A i \in DOMAIN trace :
            trace[i].step \in {"to_parent_element", "from_element"}
            => trace[i + 1] =
                   Step("handler",
                        NearestRegistered(HandlersOf(trace[i].step),
                                          trace[i].arg))
       /\ \A i, j \in DOMAIN trace :
            (trace[i] = trace[j] /\ trace[i].step # "handler")
            => trace[i + 1] = trace[j + 1]
       /\ LET h == trace[Len(trace)].arg
          IN  /\ h = "KeyError"
                 <=> \A k \in DOMAIN __mro__(call.arg) :
                        __mro__(call.arg)[k] \notin DOMAIN HandlersOf(call.op)
              /\ h = "KeyError"
                 => /\ raised = Some(Exc("KeyError", Msg(call.arg, "", 0)))
                    /\ retval = None
              /\ (h # "KeyError" /\ raised = NoExc)
                 => /\ retval # None
                    /\ call.op = "to_parent_element"
                       => Val(retval).handler = h

\* a class with two registered ancestors, Fault before ComplexModelBase in
\* its linearization, was encoded twice by the handler of Fault
C12_Witness ==
    /\ call.op = "to_parent_element"
    /\ call.arg = "UserFault"
    /\ Len(trace) = 4
    /\ trace[1] = Step("to_parent_element", "UserFault")
    /\ trace[2] = Step("handler", "fault_to_parent_element")
    /\ trace[3] = trace[1]
    /\ trace[4] = trace[2]
    /\ raised = NoExc

\* the body of the request in progress fails the validation the protocol
\* is set up to do
FailsValidation(s, body) ==
    /\ s.validate_document = "__validate_lxml"
    /\ s.validation_schema # None
    /\ ~validate(Val(s.validation_schema), body)

\* C13: decompose_incoming_envelope sets ctx.in_header_doc to None,
\* ctx.in_body_doc to ctx.in_document and ctx.method_request_string to the
\* root element's tag before it validates the body; when validation raises,
\* the three fields stay set and the stage does not complete; no request is
\* past this stage with a body that fails validation.
C13_ExtractThenValidate ==
    /\ call.op = "decompose_incoming_envelope"
       => /\ ctx.in_header_doc = None
          /\ ctx.in_body_doc = pre.ctx.in_document
          /\ ctx.method_request_string = Val(pre.ctx.in_document)[1].tag
          /\ trace[1] = Step("extract_body", ctx.method_request_string)
          /\ \A i \in DOMAIN trace :
                trace[i].step \in {"validate_document",
                                   "validation_schema.validate"} => i > 1
          /\ FailsValidation(pre.self, Val(ctx.in_body_doc))
             => /\ raised # NoExc
                /\ Val(raised).type = "SchemaValidationError"
          /\ raised # NoExc => pc.req = "failed"
    /\ (pc.req \in {"decomposed", "described", "deserialized"}
        /\ ctx.in_body_doc # None)
       => ~FailsValidation(self, Val(ctx.in_body_doc))

\* a body was extracted and then refused by the schema
C13_Witness ==
    /\ call.op = "decompose_incoming_envelope"
    /\ FailsValidation(pre.self, Val(ctx.in_body_doc))
    /\ Val(raised).type = "SchemaValidationError"
    /\ pre.ctx.in_body_doc = None
    /\ pre.ctx.method_request_string = "None"
    /\ ctx.in_body_doc = ctx.in_document
    /\ ctx.method_request_string = "b"
    /\ pc.req = "failed"

\* the positions of the children of node that have the given tag
Positions(node, tag) ==
    {i \in DOMAIN node.children : node.children[i].tag = tag}

\* the positions of the children of node that are the xs:element of name
Declared(node, name) ==
    {i \in Positions(node, "element") : node.children[i].name = name}

\* the class handed to the generator, its element fields, the xs:complexType
\* generated for it and the xs:sequence of that (the first, if several)
TheClass == Val(xsd.cls)

ElementFields ==
    {TheClass.fields[i] :
        i \in {j \in DOMAIN TheClass.fields : ~TheClass.fields[j].attribute}}

TheComplexType ==
    LET doc == Val(xsd.docs)
    IN  doc.children[CHOOSE i \in Positions(doc, "complexType") :
                         doc.children[i].name = TheClass.name]

TheSequence ==
    TheComplexType.children[CHOOSE i \in Positions(TheComplexType,
                                                   "sequence") : TRUE]

\* the name C14 and C15 expect a field's xs:element to have
NamedAs(f) == IF f.sub_name # "None" THEN f.sub_name ELSE f.name

OneElementPerField ==
    /\ Cardinality(Positions(TheComplexType, "sequence")) = 1
    /\ Len(TheSequence.children) = Cardinality(ElementFields)
    /\ \A f \in ElementFields :
          /\ Cardinality(Declared(TheSequence, NamedAs(f))) = 1
          /\ f.sub_name # "None" => Declared(TheSequence, f.name) = {}

RoundTrip ==
    LET objects == Val(xsd.objects)
        named == {t \in objects.types : t.name = TheClass.name}
    IN  /\ objects.tns = TheClass.namespace
        /\ Cardinality(named) = 1
        /\ \A t \in named :
              /\ t.namespace = TheClass.namespace
              /\ type_info_dict(t) = type_info_dict(TheClass)

MandatoryAttributes ==
    {TheClass.fields[i] :
        i \in {j \in DOMAIN TheClass.fields :
                  TheClass.fields[j].attribute /\ TheClass.fields[j].mandatory}}

\* the last call validated, in schema validation mode, a document for the
\* class whose root lacks a mandatory attribute
OmitsMandatoryAttribute ==
    /\ Validated
    /\ pre.self.validator = "SCHEMA_VALIDATION"
    /\ pre.self.app = ClassApp
    /\ Val(ctx.in_body_doc)[1].tag = TheClass.name
    /\ \E f \in MandatoryAttributes :
          NamedAs(f) \notin Val(ctx.in_body_doc)[1].attrs

\* C16: an attribute field wrapping a mandatory type is declared in the
\* complex type's schema as an xs:attribute with use="required", and a
\* document that omits the attribute fails validation in schema validation
\* mode with SchemaValidationError.
C16_MandatoryAttribute ==
    /\ xsd.docs # None
       => \A f \in MandatoryAttributes :
            \E i \in Positions(TheComplexType, "attribute") :
                /\ TheComplexType.children[i].name = NamedAs(f)
                /\ TheComplexType.children[i].use = "required"
    /\ OmitsMandatoryAttribute
       => /\ raised # NoExc
          /\ Val(raised).type = "SchemaValidationError"

\* the tree of the concatenated fragments of the request, as the
\* protocol's parser configuration reads it
ParsedInput ==
    LET nodes == Scan(_bytes_join(pre.ctx.in_string.frags), 1, 0, <<>>,
                      pre.self.parser_kwargs.recover).nodes
    IN  IF nodes = <<>> THEN None ELSE Some(nodes)

\* the first parse of the request is refused with ValueError: text with an
\* encoding declaration
RejectedWithValueError ==
    /\ pre.ctx.in_string.unicode
    /\ HasEncodingDeclaration(_bytes_join(pre.ctx.in_string.frags))

\* C18: a call of create_in_document either sets ctx.in_document to the
\* tree parsed from the concatenation of the fragments of ctx.in_string, or
\* raises a client fault; when the first parse is refused with ValueError,
\* the retry parses with the protocol's parser configuration and sets
\* ctx.in_document.
C18_ParsedOrClientFault ==
    call.op = "create_in_document"
    => /\ \/ raised = NoExc /\ ctx.in_document = ParsedInput
          \/ /\ raised # NoExc
             /\ Val(raised).type = "Fault"
             /\ Val(raised).faultcode = "Client.XMLSyntaxError"
       /\ RejectedWithValueError
          => /\ raised = NoExc
             /\ ctx.in_document # None
             /\ Count(Step("fromstring", "parser_kwargs")) = 2

\* the last call made its handler decode something
Decoded == \E i \in DOMAIN trace : trace[i].step = "from_element"

\* C19: deserialize called with ctx.descriptor None raises ctx.in_error when
\* that is set and otherwise the fault 'Client' that names
\* ctx.method_request_string as not found; 'before_deserialize' was fired,
\* ctx.in_object is unchanged, nothing was decoded and 'after_deserialize'
\* was not fired.
C19_NoDescriptor ==
    (call.op = "deserialize" /\ pre.ctx.descriptor = None)
    => /\ raised = IF pre.ctx.in_error # None THEN pre.ctx.in_error
                   ELSE Some(Fault("Client",
                                   Msg("Method not found.",
                                       pre.ctx.method_request_string, 0)))
       /\ TraceHas(Step("fire_event", "before_deserialize"))
       /\ ctx.in_object = pre.ctx.in_object
       /\ ~Decoded
       /\ ~TraceHas(Step("fire_event", "after_deserialize"))

\* deserialize raised the error the method lookup had left in ctx.in_error
C19_Witness ==
    /\ call.op = "deserialize"
    /\ pre.ctx.descriptor = None
    /\ pre.ctx.in_error # None
    /\ raised = pre.ctx.in_error
    /\ Val(raised).faultcode = "Client.ResourceNotFound"
    /\ TraceHas(Step("fire_event", "before_deserialize"))

\* the class of the body of the last call: in_message of the descriptor for
\* a request, out_message for a response
BodyClass ==
    IF call.message = "REQUEST" THEN Val(pre.ctx.descriptor).in_message
    ELSE Val(pre.ctx.descriptor).out_message

\* C20: deserialize called with a descriptor and no body decodes nothing and
\* sets ctx.in_object to a list of as many None as the body class declares
\* fields; called with a body, it sets ctx.in_object to what the handler
\* resolved for the body class decodes from ctx.in_body_doc.
C20_InObject ==
    (call.op = "deserialize" /\ pre.ctx.descriptor # None)
    => IF pre.ctx.in_body_doc = None
       THEN /\ ~Decoded
            /\ ctx.in_object # None
            /\ Val(ctx.in_object).kind = "list"
            /\ Len(Val(ctx.in_object).items) = Len(_type_info(BodyClass))
            /\ \A i \in DOMAIN Val(ctx.in_object).items :
                  Val(ctx.in_object).items[i] = "None"
       ELSE LET dec == from_element(BodyClass, Val(pre.ctx.in_body_doc))
            IN  /\ TraceHas(Step("from_element",
                                 NearestRegistered(deserialization_handlers,
                                                   BodyClass)))
                /\ IF dec.exc = NoExc THEN ctx.in_object = dec.value
                   ELSE raised = dec.exc /\ ctx.in_object = pre.ctx.in_object

\* a response without a body was deserialized to one None, the number of
\* fields of out_message
C20_Witness ==
    /\ call.op = "deserialize"
    /\ call.message = "RESPONSE"
    /\ pre.ctx.descriptor # None
    /\ pre.ctx.in_body_doc = None
    /\ raised = NoExc
    /\ ctx.in_object = Some(PyList(<<"None">>))

====
